---- MODULE Spec2Model ----
(***************************************************************************)
(* DayTrack: the local durable store (IndexedDB object stores daily_logs   *)
(* and audio_files), the retention compactor autoCleanupAndCompress, the   *)
(* application flows of App.tsx that write the store, and the Timeline's   *)
(* playback-position-to-segment resolver.                                  *)
(*                                                                         *)
(* A store is a function from its present keys to records.  An IndexedDB   *)
(* transaction other than the compactor's is one atomic step.  The         *)
(* compactor's transaction is a sequence of steps (one per queued get      *)
(* request) during which it holds both stores: no other transaction runs   *)
(* until it has committed or aborted.                                      *)
(*                                                                         *)
(* Times of the resolver are in tenths of a second.  The wall clock is a    *)
(* day number and whether the instant lies after that day's UTC midnight.  *)
(***************************************************************************)
EXTENDS Integers, Sequences, FiniteSets, TLC

VARIABLES
  audio,        \* object store audio_files: id -> [blob, compressed]
  logs,         \* object store daily_logs: date -> DailyLog
  now,          \* wall clock: [day, late], late = past midnight UTC of that day
  boots,        \* number of times the page has been (re)loaded
  sweepPc,      \* autoCleanupAndCompress: "start", "snap", "tx", "done"
  sweepLogs,    \* its `logs` snapshot (result of getAllLogs)
  tx,           \* its readwrite transaction, <<>> when none is live
  pending,      \* read callbacks suspended at `await compressBlob`
  unhandled,    \* how read callbacks of the sweep ended in an unhandled
                \* rejection or error: "compress", "inactive", "rejected";
                \* the writes whose rejection no caller caught
  sessions,     \* recorder.onstop handlers in flight
  uiLogs,       \* React state `logs` (currentLog is its entry for selectedDate)
  loadPending,  \* loadData() issued and not yet resolved: "no", "plain", or
                \* "clear" when setIsProcessing(false) follows it
  isProcessing, \* React state isProcessing
  sumJob,       \* handleSummarize in flight: <<>> or <<the captured currentLog>>
  nextAudio,    \* the next audio id Date.now() yields
  orig,         \* history: id -> the bytes last handed to saveAudio
  phase,        \* scenario: "open", or "quiet" once only the compactor runs
  hist,         \* history: the sweeps of the quiet phase; whether a late
                \* continuation found its record changed since it was read;
                \* the writes whose promise never settled; the audio ids
                \* of the segments that committed sweeps have marked
  playingAudioId, currentTime, tlLog,  \* Timeline state and its `log` prop
  estimate,     \* what navigator.storage.estimate() resolves with; <<>> when
                \* the browser has no navigator.storage.estimate
  storage       \* StatsOverview's state `storage`

vars == <<audio, logs, now, boots, sweepPc, sweepLogs, tx, pending, unhandled,
          sessions, uiLogs, loadPending, isProcessing, sumJob, nextAudio, orig,
          phase, hist,
          playingAudioId, currentTime, tlLog, estimate, storage>>

storeVars == <<audio, logs, orig>>
sweepVars == <<sweepPc, sweepLogs, tx, pending, unhandled>>
appVars == <<sessions, uiLogs, loadPending, isProcessing, sumJob, nextAudio>>
timelineVars == <<playingAudioId, currentTime, tlLog>>
statsVars == <<estimate, storage>>
histVars == <<phase, hist>>

----------------------------------------------------------------------------
(* Bounds of the model *)

NumAudio == 2
MaxBoots == 1
SegsPerChunk == 2
MaxLogLen == 2

----------------------------------------------------------------------------
(* Values *)

Null == <<>>
Some(x) == <<x>>

AudioIds == 1..NumAudio
NoAudio == 0

\* A blob is a sequence of bytes.  gzip output starts with the gzip magic.
GZ == "gz"
RawBlobs == { <<"x">>, <<GZ, "y">> }

\* what the MediaRecorder yields: new Blob(chunks, { type: mimeType })
RecordedBlob == <<"x">>

\* compressBlob: blob.stream().pipeThrough(new CompressionStream('gzip'))
compressBlob(blob) == <<GZ>> \o blob

\* decompressBlob: throws on input that is not a gzip stream
CanDecompress(blob) == Len(blob) > 0 /\ Head(blob) = GZ
decompressBlob(blob) == Tail(blob)

\* A keyed object store
Lookup(store, k) == IF k \in DOMAIN store THEN Some(store[k]) ELSE Null
PutKeepExisting(store, k, v) ==
  IF k \in DOMAIN store THEN store ELSE (k :> v) @@ store
Put(store, k, v) == (k :> v) @@ store
Remove(store, keys) == [k \in DOMAIN store \ keys |-> store[k]]

----------------------------------------------------------------------------
(* Time and logs *)

HORIZON == 30
Days == {0, HORIZON, HORIZON + 1}
ClockValues == {[day |-> 0, late |-> FALSE], [day |-> HORIZON, late |-> FALSE],
                [day |-> HORIZON, late |-> TRUE],
                [day |-> HORIZON + 1, late |-> FALSE]}
Before(t, u) == t.day < u.day \/ (t.day = u.day /\ ~t.late /\ u.late)

\* new Date().toISOString().split('T')[0]
Today == now.day

\* logDate < thirtyDaysAgo, logDate = new Date(log.date) = UTC midnight of the
\* date, thirtyDaysAgo = the current instant minus 30 days
IsOld(date, t) == date < t.day - HORIZON \/ (date = t.day - HORIZON /\ t.late)

\* transcribeAudioChunk followed by newSegments.map(s => ({ ...s, audioId })):
\* segments with fresh ids, laid out one after the other in the chunk
Transcribe(audioId) ==
  [i \in 1..SegsPerChunk |-> [id |-> <<audioId, i>>, audioId |-> audioId,
                   isCompressed |-> FALSE,
                   offsetInAudio |-> (i - 1) * 10, duration |-> 10]]

\* injectDemoData's demoLog: three segments without audioId, and a summary
DemoLog(date) ==
  [date |-> date,
   transcripts |-> [i \in 1..3 |-> [id |-> <<NoAudio, i>>, audioId |-> NoAudio,
                                    isCompressed |-> FALSE, offsetInAudio |-> 0,
                                    duration |-> <<450, 300, 600>>[i]]],
   summary |-> "demo"]

\* currentLog.transcripts.map(t => t.audioId).filter(id => !!id)
AudioIdsOf(log) ==
  {log.transcripts[i].audioId : i \in DOMAIN log.transcripts} \ {NoAudio}

----------------------------------------------------------------------------
(* BlobStore *)

\* the record saveAudio puts
AudioRecord(blob, shouldCompress) ==
  [blob |-> IF shouldCompress THEN compressBlob(blob) ELSE blob,
   compressed |-> shouldCompress]

getAudioWithoutDecompress(store, id) ==
  LET result == Lookup(store, id) IN
  IF result = Null THEN Null ELSE Some(result[1].blob)

getAudioWithoutFallback(store, id) ==
  LET result == Lookup(store, id) IN
  IF result = Null THEN Null
  ELSE IF result[1].compressed
       THEN IF CanDecompress(result[1].blob)
            THEN Some(decompressBlob(result[1].blob))
            ELSE Null
       ELSE Some(result[1].blob)

\* getAudio: Null when absent; the decompressed blob of a record flagged
\* compressed, the stored blob when decompression throws or the flag is unset
getAudio(store, id) ==
  LET result == Lookup(store, id) IN
  IF result = Null THEN Null
  ELSE IF result[1].compressed
       THEN IF CanDecompress(result[1].blob)
            THEN Some(decompressBlob(result[1].blob))
            ELSE Some(result[1].blob)
       ELSE Some(result[1].blob)

\* getLog: request.result || null
getLog(store, date) == Lookup(store, date)

----------------------------------------------------------------------------
(* RetentionCompactor: autoCleanupAndCompress *)

\* segment.audioId && !segment.isCompressed
Eligible(segment) == segment.audioId # NoAudio /\ ~segment.isCompressed

\* the dates of the snapshot the loop enters: logDate < thirtyDaysAgo
OldDates(snapshot, t) == {d \in DOMAIN snapshot : IsOld(d, t)}

\* the get requests one log queues, in segment order
GetsOfLog(log) ==
  LET F[i \in 0..Len(log.transcripts)] ==
        IF i = 0 THEN <<>>
        ELSE IF Eligible(log.transcripts[i])
             THEN Append(F[i - 1], log.transcripts[i].audioId)
             ELSE F[i - 1]
  IN F[Len(log.transcripts)]

\* the get requests the whole loop queues: getAll returns the logs in key order
RECURSIVE GetsOfLogs(_, _)
GetsOfLogs(snapshot, dates) ==
  IF dates = {} THEN <<>>
  ELSE LET d == CHOOSE x \in dates : \A y \in dates : x <= y
       IN GetsOfLog(snapshot[d]) \o GetsOfLogs(snapshot, dates \ {d})

\* segment.isCompressed = true for every eligible segment of the log
MarkLog(log) ==
  [log EXCEPT !.transcripts =
     [i \in DOMAIN log.transcripts |->
        IF Eligible(log.transcripts[i])
        THEN [log.transcripts[i] EXCEPT !.isCompressed = TRUE]
        ELSE log.transcripts[i]]]

\* logUpdated
LogUpdated(log) == \E i \in DOMAIN log.transcripts : Eligible(log.transcripts[i])

\* the logStore.put(log) requests of the loop
LogPuts(snapshot, t) ==
  LET ds == {d \in OldDates(snapshot, t) : LogUpdated(snapshot[d])}
  IN [d \in ds |-> MarkLog(snapshot[d])]

NeedsCompressionUnchecked(result) == result # Null

\* result && !result.compressed
NeedsCompression(result) == result # Null /\ ~result[1].compressed

CompactedRecordFlagOnly(rec) == [rec EXCEPT !.compressed = TRUE]

CompactedRecordTwice(rec) ==
  [rec EXCEPT !.blob = compressBlob(compressBlob(rec.blob)),
              !.compressed = TRUE]

\* { ...result, blob: compressedBlob, compressed: true }
CompactedRecord(rec) ==
  [rec EXCEPT !.blob = compressBlob(rec.blob), !.compressed = TRUE]

PutAcceptedAlways(t) == TRUE

\* IndexedDB accepts a request only on a transaction that is active, which it is
\* while one of its request callbacks is being dispatched; otherwise put throws
\* TransactionInactiveError
PutAccepted(t) == t # Null /\ t[1].active

\* the promise autoCleanupAndCompress returns: the function has no await after
\* the loop, so the promise resolves when the loop has queued its requests
SweepResolved == sweepPc \in {"tx", "done", "aborted"}

----------------------------------------------------------------------------
(* History bookkeeping (not program state) *)

SweepRunning == sweepPc \in {"snap", "tx"}

\* a sweep of the quiet phase has committed
SweepCompleted(h, audioAfter) ==
  IF phase # "quiet" THEN h
  ELSE [h EXCEPT !.runs = IF h.runs < 2 THEN h.runs + 1 ELSE 2,
                 !.base = IF h.runs = 0 THEN audioAfter ELSE h.base]

\* the audio ids of the segments a sweep marks in the logs it puts
MarkedBy(snapshot, dates) ==
  UNION {{snapshot[d].transcripts[i].audioId :
            i \in {j \in DOMAIN snapshot[d].transcripts :
                     Eligible(snapshot[d].transcripts[j])}} : d \in dates}

----------------------------------------------------------------------------
(* Initial state: empty stores, the page has just been loaded *)

Init ==
  /\ audio = <<>>
  /\ logs = <<>>
  /\ orig = <<>>
  /\ now = [day |-> 0, late |-> FALSE]
  /\ boots = 0
  /\ sweepPc = "start"
  /\ sweepLogs = <<>>
  /\ tx = Null
  /\ pending = {}
  /\ unhandled = {}
  /\ sessions = {}
  /\ uiLogs = <<>>
  /\ loadPending = "plain"
  /\ isProcessing = FALSE
  /\ sumJob = Null
  /\ nextAudio = 1
  /\ phase = "open"
  /\ hist = [runs |-> 0, base |-> <<>>, aborted |-> FALSE, overtaken |-> FALSE,
             hung |-> {}, marked |-> {}]
  /\ playingAudioId = NoAudio
  /\ currentTime = 0
  /\ tlLog = Null
  /\ estimate = Null
  /\ storage = [usageMB |-> 0, quotaMB |-> 0, percentUsed |-> <<0, 1>>]

----------------------------------------------------------------------------------------------------------------------------------------
(* BlobStore operations and the clock *)

\* saveAudio(id, blob, shouldCompress), called by any client of the store
SaveAudio(id, blob, shouldCompress) ==
  /\ tx = Null
  /\ audio' = Put(audio, id, AudioRecord(blob, shouldCompress))
  /\ orig' = Put(orig, id, blob)
  /\ UNCHANGED <<logs, now, boots, sweepVars, appVars, histVars, timelineVars, statsVars>>

\* the clock advances
Tick ==
  /\ \E t \in ClockValues : Before(now, t) /\ now' = t
  /\ UNCHANGED <<storeVars, boots, sweepVars, appVars, histVars, timelineVars, statsVars>>

----------------------------------------------------------------------------
(* autoCleanupAndCompress, run once per page load *)

\* const logs = await getAllLogs()
SweepSnapshot ==
  /\ sweepPc = "start"
  /\ sweepPc' = "snap"
  /\ sweepLogs' = logs
  /\ UNCHANGED <<storeVars, now, boots, tx, pending, unhandled, appVars,
                 histVars, timelineVars, statsVars>>

\* db.transaction([STORE_LOGS, STORE_AUDIO], 'readwrite') and the loop, which
\* queues every get and every logStore.put before any callback runs
SweepBegin ==
  /\ sweepPc = "snap"
  /\ sweepPc' = "tx"
  /\ tx' = Some([gets |-> GetsOfLogs(sweepLogs, OldDates(sweepLogs, now)),
                 logPuts |-> LogPuts(sweepLogs, now),
                 audioPuts |-> <<>>,
                 active |-> FALSE])
  /\ UNCHANGED <<storeVars, now, boots, sweepLogs, pending, unhandled, appVars,
                 histVars, timelineVars, statsVars>>

\* audioReq.onsuccess for the first queued get.  Requests run in the order they
\* were placed, so the get reads the store as it was when the transaction began.
\* The callback awaits compressBlob and then puts; the continuation runs either
\* during the dispatch of this callback (the transaction is active), or later.
SweepGet ==
  /\ sweepPc = "tx"
  /\ tx[1].gets # <<>>
  /\ LET id == Head(tx[1].gets)
         result == Lookup(audio, id)
         rest == [tx[1] EXCEPT !.gets = Tail(@)]
         dispatching == Some([rest EXCEPT !.active = TRUE])
     IN IF ~NeedsCompression(result)
        THEN /\ tx' = Some(rest)
             /\ UNCHANGED <<sweepPc, pending, unhandled>>
        ELSE \/ \* the continuation runs while the callback is dispatched
                /\ PutAccepted(dispatching)
                /\ tx' = Some([rest EXCEPT !.audioPuts =
                                 Put(@, id, CompactedRecord(result[1]))])
                /\ UNCHANGED <<sweepPc, pending, unhandled>>
             \/ \* the continuation runs later
                /\ tx' = Some(rest)
                /\ pending' = pending \cup {[audioId |-> id, result |-> result[1]]}
                /\ UNCHANGED <<sweepPc, unhandled>>
             \/ \* compressBlob rejects
                /\ tx' = Some(rest)
                /\ unhandled' = unhandled \cup {"compress"}
                /\ UNCHANGED <<sweepPc, pending>>
             \/ \* the put request fails: its error event aborts the transaction
                /\ PutAccepted(dispatching)
                /\ tx' = Null
                /\ sweepPc' = "aborted"
                /\ unhandled' = unhandled \cup {"rejected"}
                /\ UNCHANGED pending
  /\ UNCHANGED <<storeVars, now, boots, sweepLogs, appVars, histVars,
                 timelineVars, statsVars>>

\* every request has completed and no callback placed a new one: auto-commit
SweepCommit ==
  /\ sweepPc = "tx"
  /\ tx[1].gets = <<>>
  /\ audio' = tx[1].audioPuts @@ audio
  /\ logs' = tx[1].logPuts @@ logs
  /\ tx' = Null
  /\ sweepPc' = "done"
  /\ hist' = [SweepCompleted(hist, audio') EXCEPT
                !.marked = @ \cup MarkedBy(sweepLogs, DOMAIN tx[1].logPuts)]
  /\ UNCHANGED <<orig, now, boots, sweepLogs, pending, unhandled, appVars,
                 phase, timelineVars, statsVars>>

\* a continuation that did not run during its callback's dispatch:
\* audioStore.put(...) on the transaction of the sweep
SweepLatePut(p) ==
  /\ p \in pending
  /\ pending' = pending \ {p}
  /\ IF PutAccepted(tx)
     THEN /\ IF tx # Null
             THEN /\ tx' = Some([tx[1] EXCEPT !.audioPuts =
                                   Put(@, p.audioId, CompactedRecord(p.result))])
                  /\ UNCHANGED audio
             ELSE /\ audio' = Put(audio, p.audioId, CompactedRecord(p.result))
                  /\ UNCHANGED tx
          /\ UNCHANGED unhandled
     ELSE /\ unhandled' = unhandled \cup {"inactive"}
          /\ UNCHANGED <<tx, audio>>
  /\ hist' = IF Lookup(audio, p.audioId) # Some(p.result)
             THEN [hist EXCEPT !.overtaken = TRUE] ELSE hist
  /\ UNCHANGED <<logs, orig, now, boots, sweepPc, sweepLogs, appVars, phase,
                 timelineVars, statsVars>>

\* the process is killed, or the page reloads; the app starts again.  A live
\* transaction is aborted; everything in memory is gone
Reload ==
  /\ boots < MaxBoots
  /\ boots' = boots + 1
  /\ sweepPc' = "start"
  /\ sweepLogs' = <<>>
  /\ tx' = Null
  /\ pending' = {}
  /\ unhandled' = {}
  /\ sessions' = {}
  /\ uiLogs' = <<>>
  /\ loadPending' = "plain"
  /\ isProcessing' = FALSE
  /\ sumJob' = Null
  /\ hist' = IF phase = "quiet" /\ (SweepRunning \/ pending # {})
             THEN [hist EXCEPT !.aborted = TRUE] ELSE hist
  /\ UNCHANGED <<storeVars, now, nextAudio, phase, timelineVars, statsVars>>

----------------------------------------------------------------------------
(* App.tsx and ModelManager.tsx *)

\* loadData: setLogs(await getAllLogs()); currentLog follows logs and selectedDate
LoadData ==
  /\ loadPending # "no"
  /\ tx = Null
  /\ uiLogs' = logs
  /\ loadPending' = "no"
  /\ isProcessing' = IF loadPending = "clear" THEN FALSE ELSE isProcessing
  /\ UNCHANGED <<storeVars, now, boots, sweepVars, sessions, sumJob, nextAudio,
                 histVars, timelineVars, statsVars>>

\* recorder.onstop up to setIsProcessing(true): the chunk is stored under a
\* fresh id, uncompressed
RecStop ==
  /\ nextAudio <= NumAudio
  /\ tx = Null
  /\ audio' = Put(audio, nextAudio, AudioRecord(RecordedBlob, FALSE))
  /\ orig' = Put(orig, nextAudio, RecordedBlob)
  /\ nextAudio' = nextAudio + 1
  /\ sessions' = sessions \cup {[audioId |-> nextAudio, updatedLog |-> Null]}
  /\ isProcessing' = TRUE
  /\ UNCHANGED <<logs, now, boots, sweepVars, uiLogs, loadPending, sumJob,
                 histVars, timelineVars, statsVars>>

\* reader.onloadend: transcription returns its segments, then
\* existing = await getLog(today) and updatedLog is built
RecGetLog(s) ==
  /\ s \in sessions
  /\ s.updatedLog = Null
  /\ tx = Null
  /\ LET segmentsWithAudio == Transcribe(s.audioId)
         existing == getLog(logs, Today)
         updatedLog ==
           IF existing # Null
           THEN [existing[1] EXCEPT !.transcripts = @ \o segmentsWithAudio]
           ELSE [date |-> Today, transcripts |-> segmentsWithAudio,
                 summary |-> "none"]
     IN sessions' = (sessions \ {s}) \cup {[s EXCEPT !.updatedLog = Some(updatedLog)]}
  /\ UNCHANGED <<storeVars, now, boots, sweepVars, uiLogs, loadPending,
                 isProcessing, sumJob, nextAudio, histVars, timelineVars, statsVars>>

\* await saveLog(updatedLog); loadData() and setIsProcessing(false) follow
RecSaveLog(s) ==
  /\ s \in sessions
  /\ s.updatedLog # Null
  /\ tx = Null
  /\ logs' = Put(logs, s.updatedLog[1].date, s.updatedLog[1])
  /\ sessions' = sessions \ {s}
  /\ loadPending' = "clear"
  /\ UNCHANGED <<audio, orig, now, boots, sweepVars, uiLogs, isProcessing,
                 sumJob, nextAudio, histVars, timelineVars, statsVars>>

\* handleSummarize up to `await generateDailySummary`: currentLog is captured
SummarizeStart(date) ==
  /\ ~isProcessing
  /\ sumJob = Null
  /\ date \in DOMAIN uiLogs
  /\ uiLogs[date].transcripts # <<>>
  /\ sumJob' = Some(uiLogs[date])
  /\ isProcessing' = TRUE
  /\ UNCHANGED <<storeVars, now, boots, sweepVars, sessions, uiLogs,
                 loadPending, nextAudio, histVars, timelineVars, statsVars>>

SummarizeSaveDroppingAudio ==
  /\ sumJob # Null
  /\ tx = Null
  /\ logs' = Put(logs, sumJob[1].date, [sumJob[1] EXCEPT !.summary = "ai"])
  /\ audio' = Remove(audio, AudioIdsOf(sumJob[1]))
  /\ sumJob' = Null
  /\ loadPending' = "clear"
  /\ UNCHANGED <<orig, now, boots, sweepVars, sessions, uiLogs,
                 isProcessing, nextAudio, histVars, timelineVars, statsVars>>

\* await saveLog({ ...currentLog, summary }); loadData() follows
SummarizeSave ==
  /\ sumJob # Null
  /\ tx = Null
  /\ logs' = Put(logs, sumJob[1].date, [sumJob[1] EXCEPT !.summary = "ai"])
  /\ sumJob' = Null
  /\ loadPending' = "clear"
  /\ UNCHANGED <<audio, orig, now, boots, sweepVars, sessions, uiLogs,
                 isProcessing, nextAudio, histVars, timelineVars, statsVars>>

\* generateDailySummary throws: nothing is saved
SummarizeFail ==
  /\ sumJob # Null
  /\ sumJob' = Null
  /\ isProcessing' = FALSE
  /\ UNCHANGED <<storeVars, now, boots, sweepVars, sessions, uiLogs,
                 loadPending, nextAudio, histVars, timelineVars, statsVars>>

deleteDayDataClearingAudio(date, audioIds) ==
  /\ logs' = Remove(logs, {date})
  /\ audio' = <<>>
  /\ orig' = <<>>

deleteDayDataFailingOnMissing(date, audioIds) ==
  IF date \in DOMAIN logs /\ audioIds \subseteq DOMAIN audio
  THEN /\ logs' = Remove(logs, {date})
       /\ audio' = Remove(audio, audioIds)
       /\ orig' = Remove(orig, audioIds)
  ELSE UNCHANGED <<logs, audio, orig>>

\* deleteDayData(date, audioIds): one transaction over both stores
deleteDayData(date, audioIds) ==
  /\ logs' = Remove(logs, {date})
  /\ audio' = Remove(audio, audioIds)
  /\ orig' = Remove(orig, audioIds)

\* handleDelete: the audio ids are those of currentLog, the UI's copy
HandleDelete(date) ==
  /\ date \in DOMAIN uiLogs
  /\ tx = Null
  /\ deleteDayData(date, AudioIdsOf(uiLogs[date]))
  /\ loadPending' = IF loadPending = "clear" THEN "clear" ELSE "plain"
  /\ UNCHANGED <<now, boots, sweepVars, sessions, uiLogs, isProcessing, sumJob,
                 nextAudio, histVars, timelineVars, statsVars>>

\* injectDemoData: saveLog(demoLog) for today
InjectDemo ==
  /\ tx = Null
  /\ logs' = Put(logs, Today, DemoLog(Today))
  /\ UNCHANGED <<audio, orig, now, boots, sweepVars, appVars, histVars,
                 timelineVars, statsVars>>

----------------------------------------------------------------------------
(* Failing writes.  saveAudio, saveLog and deleteDayData settle their promise
   from transaction.oncomplete and transaction.onerror only.  A transaction
   whose request fails fires error (the promise rejects); a transaction that
   fails while committing fires abort alone, for which there is no handler:
   the promise never settles.  Either way nothing of the transaction is
   stored. *)

WriteOutcomes == {"error", "abort"}

\* the promise of a write whose transaction failed: hist.hung collects the
\* operations left waiting for ever, rejected the ones that threw to a caller
\* without a catch
Settle(op, outcome) ==
  /\ IF outcome = "error"
     THEN /\ unhandled' = unhandled \cup {op}
          /\ UNCHANGED hist
     ELSE /\ hist' = [hist EXCEPT !.hung = @ \cup {op}]
          /\ UNCHANGED unhandled

\* recorder.onstop: await saveAudio(audioId, audioBlob) fails; the handler
\* goes no further
RecStopFails(outcome) ==
  /\ nextAudio <= NumAudio
  /\ tx = Null
  /\ nextAudio' = nextAudio + 1
  /\ Settle("saveAudio", outcome)
  /\ UNCHANGED <<storeVars, now, boots, sweepPc, sweepLogs, tx, pending,
                 sessions, uiLogs, loadPending, isProcessing, sumJob, phase,
                 timelineVars, statsVars>>

\* reader.onloadend: await saveLog(updatedLog) fails; loadData() and
\* setIsProcessing(false) are not reached
RecSaveLogFails(s, outcome) ==
  /\ s \in sessions
  /\ s.updatedLog # Null
  /\ tx = Null
  /\ sessions' = sessions \ {s}
  /\ Settle("saveLog", outcome)
  /\ UNCHANGED <<storeVars, now, boots, sweepPc, sweepLogs, tx, pending,
                 uiLogs, loadPending, isProcessing, sumJob, nextAudio, phase,
                 timelineVars, statsVars>>

\* handleDelete: await deleteDayData(...) fails; loadData() is not reached
HandleDeleteFails(date, outcome) ==
  /\ date \in DOMAIN uiLogs
  /\ tx = Null
  /\ Settle("deleteDayData", outcome)
  /\ UNCHANGED <<storeVars, now, boots, sweepPc, sweepLogs, tx, pending,
                 appVars, phase, timelineVars, statsVars>>

----------------------------------------------------------------------------
(* Specifications *)

Sweep ==
  \/ SweepSnapshot
  \/ SweepBegin
  \/ SweepGet
  \/ SweepCommit
  \/ \E p \in pending : SweepLatePut(p)

Record ==
  \/ RecStop
  \/ \E s \in sessions : RecGetLog(s)
  \/ \E s \in sessions : RecSaveLog(s)

\* the store, its compactor, and the recording and deleting application
Next ==
  \/ \E id \in AudioIds, blob \in RawBlobs, c \in BOOLEAN : SaveAudio(id, blob, c)
  \/ Tick
  \/ Sweep
  \/ Reload
  \/ Record
  \/ LoadData
  \/ \E date \in Days : HandleDelete(date)

Spec == Init /\ [][Next]_vars

\* from here on the store has a single writer, the compactor: the app is
\* closed and later opened again, and nothing is recorded, deleted or saved
Freeze ==
  /\ phase = "open"
  /\ sweepPc = "start"
  /\ phase' = "quiet"
  /\ UNCHANGED <<storeVars, now, boots, sweepVars, appVars, hist, timelineVars, statsVars>>

NextQuiet ==
  \/ /\ phase = "open"
     /\ \/ \E id \in AudioIds, blob \in RawBlobs, c \in BOOLEAN :
             SaveAudio(id, blob, c)
        \/ Tick
        \/ Record
        \/ Freeze
  \/ Sweep
  \/ Reload

SpecQuiet == Init /\ [][NextQuiet]_vars

\* the application with its summaries and its demo data;
\* one run of the page, in which the compactor, with nothing to do before day
\* HORIZON, is left at its start
Summarize ==
  \/ \E date \in Days : SummarizeStart(date)
  \/ SummarizeSave
  \/ SummarizeFail

WriteFails ==
  \/ \E o \in WriteOutcomes : RecStopFails(o)
  \/ \E s \in sessions, o \in WriteOutcomes : RecSaveLogFails(s, o)
  \/ \E date \in Days, o \in WriteOutcomes : HandleDeleteFails(date, o)

NextApp ==
  \/ Tick /\ ~now'.late /\ now'.day <= HORIZON
  \/ Record
  \/ LoadData
  \/ \E date \in Days : HandleDelete(date)
  \/ Summarize
  \/ InjectDemo

SpecApp == Init /\ [][NextApp]_vars

\* the life of the logs over the days: recordings, summaries of the day the
\* page shows, the sweep of every page load; days pass while nothing is running
NextLife ==
  \/ Tick /\ sessions = {} /\ sumJob = Null /\ ~SweepRunning
  \/ Sweep
  \/ Reload
  \/ Record
  \/ LoadData
  \/ Summarize

SpecLife == Init /\ [][NextLife]_vars

\* recording and deleting on one day, with writes that fail
NextFail ==
  \/ Record
  \/ LoadData
  \/ \E date \in Days : HandleDelete(date)
  \/ WriteFails

SpecFail == Init /\ [][NextFail]_vars

----------------------------------------------------------------------------
(* Timeline.tsx: the playback-position-to-segment resolver *)

\* the slack after a segment's end, 0.3 s, in tenths of a second
TOLERANCE == 3

MatchesWithoutTolerance(playing, time, segment) ==
  /\ playing = segment.audioId
  /\ time >= segment.offsetInAudio
  /\ time <= segment.offsetInAudio + segment.duration

MatchesAnyAudio(playing, time, segment) ==
  /\ time >= segment.offsetInAudio
  /\ time <= segment.offsetInAudio + segment.duration + TOLERANCE

\* the predicate of log.transcripts.find
Matches(playing, time, segment) ==
  /\ playing = segment.audioId
  /\ time >= segment.offsetInAudio
  /\ time <= segment.offsetInAudio + segment.duration + TOLERANCE

\* Array.prototype.find: the first element satisfying the predicate, or Null
RECURSIVE Find(_, _, _)
Find(playing, time, segments) ==
  IF segments = <<>> THEN Null
  ELSE IF Matches(playing, time, Head(segments)) THEN Some(Head(segments))
  ELSE Find(playing, time, Tail(segments))

\* the useMemo: null unless an audio is playing and there is a log
activeSegmentId(playing, time, log) ==
  IF playing = NoAudio \/ log = Null THEN Null
  ELSE LET active == Find(playing, time, log[1].transcripts)
       IN IF active # Null THEN Some(active[1].id) ELSE Null

ActiveSegmentId == activeSegmentId(playingAudioId, currentTime, tlLog)

\* playAudio(audioId): pauses when that audio is playing; otherwise fetches the
\* blob, returns when there is none, and plays it
PlayAudio(audioId) ==
  /\ IF playingAudioId = audioId
     THEN playingAudioId' = NoAudio
     ELSE /\ getAudio(audio, audioId) # Null
          /\ playingAudioId' = audioId
  /\ UNCHANGED <<storeVars, now, boots, sweepVars, appVars, histVars,
                 currentTime, tlLog,
                 statsVars>>

\* audioRef.current.ontimeupdate
TimeUpdate(time) ==
  /\ playingAudioId # NoAudio
  /\ currentTime' = time
  /\ UNCHANGED <<storeVars, now, boots, sweepVars, appVars, histVars,
                 playingAudioId, tlLog,
                 statsVars>>

\* audioRef.current.onended
Ended ==
  /\ playingAudioId # NoAudio
  /\ playingAudioId' = NoAudio
  /\ currentTime' = 0
  /\ UNCHANGED <<storeVars, now, boots, sweepVars, appVars, histVars, tlLog,
                 statsVars>>

\* the inputs of the resolver: segment lists with gaps, overlaps and segments
\* of other audios or of none, and clock values around every window's ends
SegmentTimings == {<<0, 100>>, <<100, 50>>, <<0, 150>>}
ResolverSegments ==
  [audioId : AudioIds \cup {NoAudio}, timing : SegmentTimings]
ResolverLog(choice) ==
  [date |-> 0,
   transcripts |-> [i \in DOMAIN choice |->
                      [id |-> <<choice[i].audioId, i>>,
                       audioId |-> choice[i].audioId,
                       isCompressed |-> FALSE,
                       offsetInAudio |-> choice[i].timing[1],
                       duration |-> choice[i].timing[2]]],
   summary |-> "none"]
ResolverLogs ==
  {Null} \cup
  UNION {{Some(ResolverLog(c)) : c \in [1..n -> ResolverSegments]} : n \in 0..MaxLogLen}
ClockTimes == {0, 99, 100, 102, 103, 104, 153, 154, 200}

InitResolver ==
  /\ audio = [id \in AudioIds |-> AudioRecord(RecordedBlob, FALSE)]
  /\ orig = [id \in AudioIds |-> RecordedBlob]
  /\ logs = <<>>
  /\ now = [day |-> 0, late |-> FALSE]
  /\ boots = 0
  /\ sweepPc = "done"
  /\ sweepLogs = <<>>
  /\ tx = Null
  /\ pending = {}
  /\ unhandled = {}
  /\ sessions = {}
  /\ uiLogs = <<>>
  /\ loadPending = "no"
  /\ isProcessing = FALSE
  /\ sumJob = Null
  /\ nextAudio = NumAudio + 1
  /\ phase = "open"
  /\ hist = [runs |-> 0, base |-> <<>>, aborted |-> FALSE, overtaken |-> FALSE,
             hung |-> {}, marked |-> {}]
  /\ playingAudioId = NoAudio
  /\ currentTime = 0
  /\ tlLog \in ResolverLogs
  /\ estimate = Null
  /\ storage = [usageMB |-> 0, quotaMB |-> 0, percentUsed |-> <<0, 1>>]

NextResolver ==
  \/ \E audioId \in AudioIds : PlayAudio(audioId)
  \/ \E time \in ClockTimes : TimeUpdate(time)
  \/ Ended

SpecResolver == InitResolver /\ [][NextResolver]_vars

\* one run of the page with everything that reads and writes the stores but
\* saveAudio on a stored id and the day-delete: recordings, summaries, the
\* sweep, and the player
NextFrame ==
  \/ Tick /\ sessions = {} /\ sumJob = Null /\ ~SweepRunning
  \/ Sweep
  \/ Record
  \/ LoadData
  \/ Summarize
  \/ \E audioId \in AudioIds : PlayAudio(audioId)
  \/ TimeUpdate(100)
  \/ Ended

SpecFrame == Init /\ [][NextFrame]_vars

\* the player over stores of unknown content: audio records written by other
\* versions of the app or damaged on disk, flagged either way, under some of
\* the ids; a log or none
StoredRecords == [blob : RawBlobs, compressed : BOOLEAN]

InitRead ==
  /\ audio \in UNION {[ids -> StoredRecords] : ids \in SUBSET AudioIds}
  /\ orig = [id \in DOMAIN audio |-> audio[id].blob]
  /\ logs \in {<<>>, 0 :> DemoLog(0)}
  /\ now = [day |-> 0, late |-> FALSE]
  /\ boots = 0
  /\ sweepPc = "done"
  /\ sweepLogs = <<>>
  /\ tx = Null
  /\ pending = {}
  /\ unhandled = {}
  /\ sessions = {}
  /\ uiLogs = <<>>
  /\ loadPending = "no"
  /\ isProcessing = FALSE
  /\ sumJob = Null
  /\ nextAudio = NumAudio + 1
  /\ phase = "open"
  /\ hist = [runs |-> 0, base |-> <<>>, aborted |-> FALSE, overtaken |-> FALSE,
             hung |-> {}, marked |-> {}]
  /\ playingAudioId = NoAudio
  /\ currentTime = 0
  /\ tlLog = Null
  /\ estimate = Null
  /\ storage = [usageMB |-> 0, quotaMB |-> 0, percentUsed |-> <<0, 1>>]

SpecRead == InitRead /\ [][NextResolver]_vars

----------------------------------------------------------------------------
(* db.ts getStorageStats and SummaryView.tsx StatsOverview.  Sizes are counted
   in KiB, so that 5120 MB times 100 stays a machine integer; a number that
   need not be whole (percentUsed) is a fraction <<n, d>> in lowest terms. *)

KiBPerMB == 1024

RECURSIVE Gcd(_, _)
Gcd(a, b) == IF b = 0 THEN a ELSE Gcd(b, a % b)

\* a / b for b > 0
Fraction(a, b) == LET g == Gcd(a, b) IN <<a \div g, b \div g>>

\* Math.round(x / (1024 * 1024)) of a size x, for x >= 0
RoundMB(x) == (2 * x + KiBPerMB) \div (2 * KiBPerMB)

\* v || 0
OrZero(v) == IF v = Null THEN 0 ELSE v[1]

getStorageStatsWithoutPercent(est) ==
  IF est = Null
  THEN [usageMB |-> 0, quotaMB |-> 0, percentUsed |-> <<0, 1>>]
  ELSE LET usage == OrZero(est[1].usage)
           quota == OrZero(est[1].quota)
       IN [usageMB |-> RoundMB(usage),
           quotaMB |-> RoundMB(quota),
           percentUsed |-> IF quota > 0 THEN Fraction(usage, quota)
                           ELSE <<0, 1>>]

\* getStorageStats: zeros without navigator.storage.estimate
getStorageStats(est) ==
  IF est = Null
  THEN [usageMB |-> 0, quotaMB |-> 0, percentUsed |-> <<0, 1>>]
  ELSE LET usage == OrZero(est[1].usage)
           quota == OrZero(est[1].quota)
       IN [usageMB |-> RoundMB(usage),
           quotaMB |-> RoundMB(quota),
           percentUsed |-> IF quota > 0 THEN Fraction(usage * 100, quota)
                           ELSE <<0, 1>>]

\* the sizes an estimate reports: nothing, a few KiB, 1.5 MB, 512 MB, 5120 MB,
\* more than the quota
Sizes == {0, 3, 1536, 512 * KiBPerMB, 5120 * KiBPerMB, 7000000}
Estimates ==
  {Null} \cup {Some(e) : e \in [usage : {Null} \cup {Some(x) : x \in Sizes},
                                quota : {Null} \cup {Some(x) : x \in Sizes}]}

\* the browser's storage use changes, or the page runs in another browser
EstimateChanges ==
  /\ \E e \in Estimates : estimate' = e
  /\ UNCHANGED <<storeVars, now, boots, sweepVars, appVars, histVars,
                 timelineVars, storage>>

\* fetchStats: setStorage(await getStorageStats()), on mount and every 15 s
FetchStats ==
  /\ storage' = getStorageStats(estimate)
  /\ UNCHANGED <<storeVars, now, boots, sweepVars, appVars, histVars,
                 timelineVars, estimate>>

NextStats ==
  \/ EstimateChanges
  \/ FetchStats

SpecStats == Init /\ [][NextStats]_vars

----------------------------------------------------------------------------
(* Properties *)

\* C10: the resolver returns the id of the first segment, in list order, whose
\* audioId is the playing audio and whose window [offset, offset + duration +
\* 0.3 s] holds the clock, and none when no segment is such
C10_FirstMatchInListOrder ==
  LET segs == IF tlLog = Null THEN <<>> ELSE tlLog[1].transcripts
      Sat == {i \in DOMAIN segs :
                /\ playingAudioId # NoAudio
                /\ segs[i].audioId = playingAudioId
                /\ segs[i].offsetInAudio <= currentTime
                /\ currentTime <= segs[i].offsetInAudio + segs[i].duration + 3}
  IN IF Sat = {} THEN ActiveSegmentId = Null
     ELSE \E i \in Sat : /\ \A j \in Sat : i <= j
                         /\ ActiveSegmentId = Some(segs[i].id)

\* two segments hold the clock, the second only by its tolerance-free window,
\* the first only by the tolerance; the first is the active one
C10_Witness ==
  /\ tlLog # Null
  /\ Len(tlLog[1].transcripts) = 2
  /\ playingAudioId # NoAudio
  /\ \A i \in {1, 2} : tlLog[1].transcripts[i].audioId = playingAudioId
  /\ tlLog[1].transcripts[1].offsetInAudio + tlLog[1].transcripts[1].duration < currentTime
  /\ tlLog[1].transcripts[2].offsetInAudio <= currentTime
  /\ ActiveSegmentId = Some(tlLog[1].transcripts[1].id)

\* C1: as long as no later put or delete on the id has happened, getAudio(id)
\* returns exactly the bytes last handed to saveAudio(id, b, compress), for
\* compress false and true, whatever the compactor did in between
C1_GetReturnsWhatWasPut ==
  \A id \in DOMAIN orig : getAudio(audio, id) = Some(orig[id])

\* a record stored in the compressed encoding is read back as the bytes put
C1_Witness ==
  \E id \in DOMAIN audio :
    /\ audio[id].compressed
    /\ audio[id].blob # orig[id]
    /\ getAudio(audio, id) = Some(orig[id])

\* C2: in every reachable state each stored record's compressed flag is true
\* if and only if its bytes are the compressed encoding of the bytes that were
\* put, and they are the bytes that were put otherwise
C2_FlagMatchesEncoding ==
  \A id \in DOMAIN audio :
    /\ id \in DOMAIN orig
    /\ audio[id].compressed <=> audio[id].blob = compressBlob(orig[id])
    /\ ~audio[id].compressed <=> audio[id].blob = orig[id]

\* a sweep has marked a segment and its record is stored compressed
C2_Witness ==
  \E d \in DOMAIN logs : \E i \in DOMAIN logs[d].transcripts :
    /\ logs[d].transcripts[i].isCompressed
    /\ logs[d].transcripts[i].audioId \in DOMAIN audio
    /\ audio[logs[d].transcripts[i].audioId].compressed
    /\ orig[logs[d].transcripts[i].audioId] = RecordedBlob
    /\ sweepPc = "done"

\* C3: the day-delete is atomic across both collections: a step that removes
\* the stored log of a date, or a record its segments reference, removes the
\* log and every record the stored log's segments reference
C3_DayDeleteAllOrNothing ==
  [][\A d \in DOMAIN logs :
       LET refs == AudioIdsOf(logs[d]) \cap DOMAIN audio
       IN (d \notin DOMAIN logs' \/ \E id \in refs : id \notin DOMAIN audio')
          => /\ d \notin DOMAIN logs'
             /\ \A id \in refs : id \notin DOMAIN audio']_vars

\* a step in which the application writes the log of date d: the end of a
\* recording, the attachment of a summary, the demo injection
ExplicitLogWrite(d) ==
  \/ \E s \in sessions : /\ s \notin sessions'
                         /\ s.updatedLog # Null
                         /\ s.updatedLog[1].date = d
                         /\ d \in DOMAIN logs' /\ logs'[d] = s.updatedLog[1]
  \/ /\ sumJob # Null /\ sumJob' = Null
     /\ sumJob[1].date = d
     /\ d \in DOMAIN logs' /\ logs'[d].summary = "ai"
  \/ /\ d = Today
     /\ d \in DOMAIN logs' /\ logs'[d] = DemoLog(d)

\* C4: once the day-delete of date d has completed, getLog(d) is null until
\* the application next writes a log for d: a log that is absent is made
\* present only by an explicit write of the application
C4_DeletedLogStaysDeleted ==
  [][\A d \in Days :
       (d \notin DOMAIN logs /\ d \in DOMAIN logs') => ExplicitLogWrite(d)]_vars

\* C7: the compactor's read-modify-write of a record is atomic with respect to
\* its id: when the record was written (or deleted) by someone else after the
\* compactor read it, the compactor's write-back leaves the store as it is,
\* and what its transaction commits is the compressed copy of the record that
\* is in the store at that moment
C7_WriteBackNeverOvertakes ==
  [][/\ \A p \in pending :
          (p \notin pending' /\ Lookup(audio, p.audioId) # Some(p.result))
          => Lookup(audio', p.audioId) = Lookup(audio, p.audioId)
     /\ (sweepPc = "tx" /\ sweepPc' = "done")
          => \A id \in DOMAIN audio' :
               \/ Lookup(audio, id) = Some(audio'[id])
               \/ /\ id \in DOMAIN audio
                  /\ audio'[id] = CompactedRecord(audio[id])]_vars

\* a write-back was attempted for a record that had been rewritten since it
\* was read, and the newer record is in the store
C7_Witness ==
  /\ hist.overtaken
  /\ "inactive" \in unhandled
  /\ \E id \in DOMAIN audio : audio[id].blob # RecordedBlob /\ ~audio[id].compressed

\* a step in which the compactor writes the audio store: its commit, or a
\* late continuation's put
SweepWriteStep ==
  \/ sweepPc = "tx" /\ sweepPc' = "done"
  \/ boots' = boots /\ pending' # pending /\ pending' \subseteq pending

\* C5: compaction is idempotent: a second sweep over the store the first one
\* left leaves the stored bytes and flags exactly as the first left them, and
\* no write of the compactor changes a record whose flag is already true
C5_SecondSweepChangesNothing ==
  /\ [](hist.runs = 2 => audio = hist.base)
  /\ [][SweepWriteStep =>
          \A id \in DOMAIN audio :
            audio[id].compressed
              => id \in DOMAIN audio' /\ audio'[id] = audio[id]]_vars

\* two sweeps have run over an old log; the first compressed its record
C5_Witness ==
  /\ hist.runs = 2
  /\ sweepPc = "done"
  /\ \E d \in DOMAIN logs : \E i \in DOMAIN logs[d].transcripts :
       /\ logs[d].transcripts[i].isCompressed
       /\ logs[d].transcripts[i].audioId \in DOMAIN audio
       /\ audio[logs[d].transcripts[i].audioId].compressed
       /\ orig[logs[d].transcripts[i].audioId] = RecordedBlob

\* every record referenced from a log strictly older than the retention
\* horizon is stored compressed
AllEligibleCompressed ==
  \A d \in DOMAIN logs :
    d < Today - HORIZON
      => \A id \in AudioIdsOf(logs[d]) \cap DOMAIN audio : audio[id].compressed

\* C6: after a sweep was killed part-way and a later sweep has run to its end,
\* no record is compressed twice, getAudio returns the bytes originally stored
\* for every id, and every eligible record is compressed
C6_AbortAndResumeIsSafe ==
  (hist.aborted /\ sweepPc = "done" /\ pending = {} /\ unhandled = {})
    => /\ \A id \in DOMAIN audio :
            /\ audio[id].blob \in {orig[id], compressBlob(orig[id])}
            /\ getAudio(audio, id) = Some(orig[id])
       /\ AllEligibleCompressed

\* C8: after a sweep has run to its end without a crash (and no compression
\* or put request failed), every record referenced from a log strictly older
\* than the horizon is stored compressed: the write issued after awaiting the
\* compression has landed
C8_CompletedSweepCompressedAll ==
  (/\ phase = "quiet" /\ hist.runs >= 1 /\ ~hist.aborted
   /\ sweepPc = "done" /\ pending = {}
   /\ unhandled \cap {"compress", "rejected"} = {})
    => AllEligibleCompressed

\* C9: a failure to compress or to write back one record is collected or
\* reported by the sweep: no read callback ends in an unhandled rejection or
\* an unhandled request error, and the failure of one record leaves the
\* sweep's transaction, with the other records' writes, to commit
C9_FailuresCollected ==
  /\ unhandled = {}
  /\ sweepPc # "aborted"

\* the log of the worked example is shown and its audio is playing: segment a
\* at offset 0 lasting 10 s, then segment b at offset 10 s lasting 5 s
WorkedExampleShown ==
  /\ tlLog # Null
  /\ playingAudioId # NoAudio
  /\ Len(tlLog[1].transcripts) = 2
  /\ \A i \in {1, 2} : tlLog[1].transcripts[i].audioId = playingAudioId
  /\ tlLog[1].transcripts[1].offsetInAudio = 0
  /\ tlLog[1].transcripts[1].duration = 100
  /\ tlLog[1].transcripts[2].offsetInAudio = 100
  /\ tlLog[1].transcripts[2].duration = 50

\* C11: for the segments a (offset 0, 10 s) and b (offset 10 s, 5 s) of the
\* playing audio, clock 9.9 s resolves to a, clock 10.2 s to b, and clock
\* 20.0 s to no segment
C11_WorkedExample ==
  WorkedExampleShown =>
    /\ currentTime = 99 => ActiveSegmentId = Some(tlLog[1].transcripts[1].id)
    /\ currentTime = 102 => ActiveSegmentId = Some(tlLog[1].transcripts[2].id)
    /\ currentTime = 200 => ActiveSegmentId = Null

\* C12: the resolver returns no active segment whenever no audio is playing,
\* the log is absent or has no segments, or no segment has the playing audio's
\* id, whatever the clock
C12_NoneWithoutMatchingAudio ==
  LET segs == IF tlLog = Null THEN <<>> ELSE tlLog[1].transcripts
  IN (\/ playingAudioId = NoAudio
      \/ tlLog = Null
      \/ segs = <<>>
      \/ \A i \in DOMAIN segs : segs[i].audioId # playingAudioId)
     => ActiveSegmentId = Null

\* an audio is playing and the clock is inside the window of a segment of
\* another audio: nothing is active
C12_Witness ==
  /\ playingAudioId # NoAudio
  /\ tlLog # Null
  /\ \E i \in DOMAIN tlLog[1].transcripts :
       /\ tlLog[1].transcripts[i].audioId \notin {playingAudioId, NoAudio}
       /\ tlLog[1].transcripts[i].offsetInAudio <= currentTime
       /\ currentTime <= tlLog[1].transcripts[i].offsetInAudio
                           + tlLog[1].transcripts[i].duration
  /\ ActiveSegmentId = Null

\* C13: when the bytes of a record flagged compressed cannot be decompressed,
\* getAudio resolves with the stored bytes as they are, never with null
C13_DecompressionFallback ==
  \A id \in DOMAIN audio :
    (audio[id].compressed /\ ~CanDecompress(audio[id].blob))
      => getAudio(audio, id) = Some(audio[id].blob)

\* playAudio fetched a record flagged compressed that is not gzip, got its
\* bytes, and plays it
C13_Witness ==
  /\ playingAudioId \in DOMAIN audio
  /\ audio[playingAudioId].compressed
  /\ ~CanDecompress(audio[playingAudioId].blob)
  /\ getAudio(audio, playingAudioId) = Some(audio[playingAudioId].blob)

\* after the step the log store holds L under L.date and every other date's
\* record as before
SavedExactly(L) ==
  /\ DOMAIN logs' = DOMAIN logs \cup {L.date}
  /\ logs'[L.date] = L
  /\ \A d \in DOMAIN logs \ {L.date} : logs'[d] = logs[d]

\* C14: saveLog is a full-record replace keyed by date: after saveLog(L), from
\* the recording flow, the summary or the demo injection, getLog(L.date) is
\* exactly L and the records of the other dates are unchanged
C14_SaveLogReplacesWholeRecord ==
  [][/\ \A s \in sessions : RecSaveLog(s) => SavedExactly(s.updatedLog[1])
     /\ SummarizeSave => SavedExactly([sumJob[1] EXCEPT !.summary = "ai"])
     /\ InjectDemo => SavedExactly(DemoLog(Today))]_vars

\* a summary was attached to the stored log of one date (its record replaced)
\* while another date has a log
C14_Witness ==
  \E d \in DOMAIN logs :
    /\ logs[d].summary = "ai"
    /\ \E e \in DOMAIN logs : e # d

\* C15 as stated: deleting a log by date removes the log record only and
\* leaves every record of the audio store unchanged
C15_DeleteLeavesAudioUntouched ==
  [][\A d \in DOMAIN logs : d \notin DOMAIN logs' => audio' = audio]_vars

\* C15 as amended: the day-delete removes the log record of the date and, of
\* the audio store, the records whose ids the caller listed and no other; the
\* logs of other dates are unchanged, and so is the audio store when the list
\* is empty
C15_DeleteRemovesOnlyListedAudio ==
  [][\A d \in Days :
       HandleDelete(d) =>
         LET ids == AudioIdsOf(uiLogs[d])
         IN /\ DOMAIN audio' = DOMAIN audio \ ids
            /\ \A id \in DOMAIN audio' : audio'[id] = audio[id]
            /\ DOMAIN logs' = DOMAIN logs \ {d}
            /\ \A e \in DOMAIN logs' : logs'[e] = logs[e]
            /\ ids = {} => audio' = audio]_vars

\* a day was deleted with its listed audio, and a record that was not listed
\* is still in the audio store
C15_Witness ==
  /\ \E id \in 1..(nextAudio - 1) : id \notin DOMAIN audio
  /\ \E id \in DOMAIN audio : audio[id] = AudioRecord(RecordedBlob, FALSE)
  /\ sweepPc = "start"

\* after the step the audio store holds exactly one record under id, with the
\* bytes b in the encoding c selects and the flag c, and every other id's
\* record as before
StoredExactly(id, b, c) ==
  /\ DOMAIN audio' = DOMAIN audio \cup {id}
  /\ audio'[id] = [blob |-> IF c THEN <<GZ>> \o b ELSE b, compressed |-> c]
  /\ \A other \in DOMAIN audio \ {id} : audio'[other] = audio[other]

\* C16: saveAudio(id, b, c) replaces the record of id, if there is one: after
\* it exactly one record is under id, holding b in the encoding selected by c
\* with compressed = c, and the records of all other ids are unchanged
C16_SaveAudioOverwrites ==
  [][/\ \A id \in AudioIds, b \in RawBlobs, c \in BOOLEAN :
          SaveAudio(id, b, c) => StoredExactly(id, b, c)
     /\ RecStop => StoredExactly(nextAudio, RecordedBlob, FALSE)]_vars

\* the record of a recording, whose log is not saved yet, was overwritten by
\* a saveAudio of other bytes with compression
C16_Witness ==
  /\ boots = 0
  /\ logs = <<>>
  /\ nextAudio = 2
  /\ DOMAIN audio = {1}
  /\ audio[1] = [blob |-> <<GZ, GZ, "y">>, compressed |-> TRUE]
  /\ \E s \in sessions : s.audioId = 1

\* C17: deleting is idempotent: a delete of a date or of audio ids that have
\* no record succeeds, removing what is there and changing nothing else; with
\* nothing there (the day was deleted already) it leaves both stores as they
\* are
C17_DeleteIdempotent ==
  [][\A d \in Days :
       HandleDelete(d) =>
         LET ids == AudioIdsOf(uiLogs[d])
         IN /\ d \notin DOMAIN logs'
            /\ ids \cap DOMAIN audio' = {}
            /\ d \notin DOMAIN logs => logs' = logs
            /\ ids \cap DOMAIN audio = {} => audio' = audio
            /\ (d \notin DOMAIN logs /\ ids \cap DOMAIN audio = {})
                 => <<logs', audio'>> = <<logs, audio>>]_vars

\* a day with audio was deleted, and the page, which still shows it, offers
\* to delete it again
C17_Witness ==
  \E d \in DOMAIN uiLogs :
    /\ d \notin DOMAIN logs
    /\ AudioIdsOf(uiLogs[d]) # {}
    /\ AudioIdsOf(uiLogs[d]) \cap DOMAIN audio = {}
    /\ loadPending # "no"

\* C18: when a recording session's segments are appended to the log of a date,
\* the next getLog of the date returns the segments stored before, in their
\* order, followed by the new segments in the order transcription returned
\* them (the new segments alone when the log is created)
C18_AppendKeepsStoredSegments ==
  [][\A s \in sessions :
       RecSaveLog(s) =>
         LET d == s.updatedLog[1].date
             before == IF d \in DOMAIN logs THEN logs[d].transcripts ELSE <<>>
         IN /\ d \in DOMAIN logs'
            /\ logs'[d].transcripts = before \o Transcribe(s.audioId)]_vars

\* C19: no write is fire-and-forget: when the promise of the compaction sweep
\* has resolved, every storage write the sweep issued has been committed (none
\* is queued in a live transaction, none is still to be issued by a callback)
C19_SweepResolvesAfterItsWrites ==
  SweepResolved =>
    /\ pending = {}
    /\ tx # Null => /\ tx[1].gets = <<>>
                    /\ DOMAIN tx[1].logPuts = {}
                    /\ DOMAIN tx[1].audioPuts = {}

\* C20: when the write transaction of saveAudio, saveLog or deleteDayData
\* fails, the operation's promise rejects, so that the failure reaches the
\* caller: no failed write leaves its promise unsettled, with its caller
\* waiting for ever
C20_FailedWriteRejects ==
  hist.hung = {}

\* C21: getStorageStats returns percentUsed = usage / quota * 100 when quota
\* is positive and 0 when quota is 0 or there is no capacity introspection;
\* for 512 MB used of 5120 MB it returns 10
C21_PercentUsed ==
  [][FetchStats =>
       LET usage == IF estimate = Null THEN 0 ELSE OrZero(estimate[1].usage)
           quota == IF estimate = Null THEN 0 ELSE OrZero(estimate[1].quota)
           n == storage'.percentUsed[1]
           d == storage'.percentUsed[2]
       IN /\ d > 0
          /\ quota = 0 => n = 0
          /\ quota > 0 => /\ quota % d = 0
                          /\ n * (quota \div d) = usage * 100
          /\ (usage = 512 * 1024 /\ quota = 5120 * 1024)
               => storage'.percentUsed = <<10, 1>>]_vars

\* the page shows the statistics of 512 MB used of 5120 MB
C21_Witness ==
  /\ estimate # Null
  /\ estimate[1].usage = Some(512 * 1024)
  /\ estimate[1].quota = Some(5120 * 1024)
  /\ storage = [usageMB |-> 512, quotaMB |-> 5120, percentUsed |-> <<10, 1>>]

\* C22: getAudio and getLog resolve with null exactly when no record is stored
\* under the requested key
C22_NullIffAbsent ==
  /\ \A id \in AudioIds : getAudio(audio, id) = Null <=> id \notin DOMAIN audio
  /\ \A d \in Days : getLog(logs, d) = Null <=> d \notin DOMAIN logs

\* one audio id has no record, the record of another, flagged compressed but
\* not gzip, is playing, and one date has a log
C22_Witness ==
  /\ \E id \in AudioIds : id \notin DOMAIN audio
  /\ playingAudioId \in DOMAIN audio
  /\ audio[playingAudioId].compressed
  /\ ~CanDecompress(audio[playingAudioId].blob)
  /\ \E d \in Days : getLog(logs, d) # Null
  /\ \E d \in Days : getLog(logs, d) = Null

\* C23: a sweep changes nothing that belongs to a log whose date is not
\* strictly older than today minus 30 days: the log's record, segment marks
\* included, and every audio record its segments reference are after each
\* write of the sweep what they were before
C23_RecentLogsUntouched ==
  [][(phase = "quiet" /\ SweepWriteStep) =>
       \A d \in DOMAIN logs :
         ~(d < Today - HORIZON) =>
           /\ d \in DOMAIN logs' /\ logs'[d] = logs[d]
           /\ \A id \in AudioIdsOf(logs[d]) \cap DOMAIN audio :
                id \in DOMAIN audio' /\ audio'[id] = audio[id]]_vars

\* C24: compaction does not change what a reader sees: over every write of the
\* sweep the set of stored audio ids is the same and getAudio returns for
\* every id the bytes it returned before
C24_ReadersSeeNoChange ==
  [][SweepWriteStep =>
       /\ DOMAIN audio' = DOMAIN audio
       /\ \A id \in AudioIds : getAudio(audio', id) = getAudio(audio, id)]_vars

\* the one sweep of the quiet phase has committed the compressed copy of a
\* recorded chunk, which reads back as recorded
C24_Witness ==
  /\ phase = "quiet"
  /\ hist.runs = 1
  /\ sweepPc = "done"
  /\ \E id \in DOMAIN audio :
       /\ audio[id] = [blob |-> compressBlob(RecordedBlob), compressed |-> TRUE]
       /\ getAudio(audio, id) = Some(RecordedBlob)
       /\ \E d \in DOMAIN logs : id \in AudioIdsOf(logs[d])

\* C25: once a sweep has marked a segment and stored its log, no later sweep
\* reads the audio record on behalf of that segment; and a sweep puts the logs
\* in which it marks a segment and no other
C25_MarkedSegmentsNotReprocessed ==
  [][(sweepPc = "snap" /\ sweepPc' = "tx") =>
       /\ \A i \in DOMAIN tx'[1].gets : tx'[1].gets[i] \notin hist.marked
       /\ \A d \in DOMAIN tx'[1].logPuts :
            \E i \in DOMAIN sweepLogs[d].transcripts :
              /\ ~sweepLogs[d].transcripts[i].isCompressed
              /\ tx'[1].logPuts[d].transcripts[i].isCompressed]_vars

\* C26: a stored audio record is modified only by the compaction sweep: every
\* step that changes or removes the record of a stored id is a write of the
\* sweep, which keeps the record under its id; saveLog, getLog, getAllLogs,
\* getAudio, the summary and the player change no record
C26_OnlySweepModifiesAudio ==
  [][\A id \in DOMAIN audio :
       (id \notin DOMAIN audio' \/ audio'[id] # audio[id])
         => /\ SweepWriteStep
            /\ id \in DOMAIN audio'
            /\ audio'[id].compressed]_vars

\* a recorded chunk with a summarized log was compressed by the sweep and is
\* playing
C26_Witness ==
  /\ playingAudioId \in DOMAIN audio
  /\ audio[playingAudioId].compressed
  /\ currentTime = 100
  /\ \E d \in DOMAIN logs :
       /\ logs[d].summary = "ai"
       /\ playingAudioId \in AudioIdsOf(logs[d])

\* C27: in every state a segment of a stored log is marked isCompressed only
\* if the audio record its audioId refers to is stored with compressed = true
C27_MarkedOnlyIfCompressedStored ==
  \A d \in DOMAIN logs :
    \A i \in DOMAIN logs[d].transcripts :
      logs[d].transcripts[i].isCompressed
        => /\ logs[d].transcripts[i].audioId \in DOMAIN audio
           /\ audio[logs[d].transcripts[i].audioId].compressed

\* C28: a sweep never writes its snapshot back over a change made after the
\* snapshot: at its commit every log it puts is still stored as the snapshot
\* read it
C28_NoStaleWriteBack ==
  [][(sweepPc = "tx" /\ sweepPc' = "done")
       => \A d \in DOMAIN tx[1].logPuts :
            /\ d \in DOMAIN logs
            /\ logs[d] = sweepLogs[d]]_vars

\* C29: in every state every audioId carried by a segment of a stored log
\* refers to a record present in the audio store
C29_ReferentialIntegrity ==
  \A d \in DOMAIN logs : AudioIdsOf(logs[d]) \subseteq DOMAIN audio

\* C30: a write of a log by a recording, a summary or the sweep keeps every
\* segment the stored log for that date had
C30_NoSegmentLost ==
  [][\A d \in DOMAIN logs :
       (d \in DOMAIN logs' /\ logs'[d] # logs[d])
         => \A i \in DOMAIN logs[d].transcripts :
              \E j \in DOMAIN logs'[d].transcripts :
                logs'[d].transcripts[j].id = logs[d].transcripts[i].id]_vars

====
